---- MODULE Spec2Model ----
(***************************************************************************)
(* Cashback analysis (src/app.py): the per-customer wallet simulation and  *)
(* the two drivers built on it, calculate_cashback (full history) and      *)
(* calculate_cashback_for_month (month scoped).                            *)
(*                                                                         *)
(* Money is an integer; every revenue of the model is a multiple of 100    *)
(* and every rate an integral percentage, so x * (pct / 100) is exact and  *)
(* is written (x * pct) \div 100.                                          *)
(*                                                                         *)
(* The two drivers are separate functions over the same DataFrame and      *)
(* share no state.  The model runs them over the same rows, one row at a   *)
(* time: the row is drawn when the full-history driver reaches it, the     *)
(* month-scoped driver reads the same row, then each runs its order loop.  *)
(***************************************************************************)
EXTENDS Integers, Sequences, FiniteSets, TLC

VARIABLES
    ltv_brackets,      \* configuration: list of [min, max, label]
    cashback_config,   \* configuration: label -> [silver_cb, gold_cb, redeem_pct]
    expiry_days,       \* configuration: coins expiry in days
    target_month,      \* calculate_cashback_for_month: target_month
    use_ltv,           \* calculate_cashback_for_month: use_ltv
    pc,                \* position of the run
    n_rows,            \* rows of df iterated so far
    df_size,           \* size of the part of df iterated so far
    row,               \* current row of df: [customer_id, order_history]
    f,                 \* calculate_cashback: locals of the current customer
    customer_results,  \* calculate_cashback: customer_results
    monthly_results,   \* calculate_cashback: monthly_results (the trace)
    m,                 \* calculate_cashback_for_month: locals of the current customer
    results,           \* calculate_cashback_for_month: results
    step,              \* locals of the loop body that ran last
    hist,              \* per driver and valid order of the current customer: what the body computed
    order_history_str, \* parse_order_history: the text to parse, as a list of chunks
    order_matches,     \* parse_order_history: the sub-records still to parse
    orders,            \* parse_order_history: orders
    view,              \* the display: what the last computation over the returned tables gave
    df,                \* the DataFrame handed to the analysis as a whole: list of [customer_id, order_history]
    selected_months,   \* Monthly Analysis: the months of the request
    month_index        \* Monthly Analysis: iterations of  for target_month in selected_months  done

vars == <<ltv_brackets, cashback_config, expiry_days, target_month, use_ltv, pc,
          n_rows, df_size, row, f, customer_results, monthly_results, m,
          results, step, hist, order_history_str, order_matches, orders, view, df,
          selected_months, month_index>>

request == <<selected_months, month_index>>

parser == <<order_history_str, order_matches, orders>>

config == <<ltv_brackets, cashback_config, expiry_days, target_month, use_ltv>>

-----------------------------------------------------------------------------
(* Bounds *)

\* size of the DataFrame: a row counts for its parsed orders, a row without
\* orders for one
MaxSize == 3

\* chunks of an order_history text handed to parse_order_history
MaxChunks == 2

\* months of a Monthly Analysis request
MaxMonths == 2

-----------------------------------------------------------------------------
(* Dates: the order_date strings of the model, with Python's string order, *)
(* datetime.strptime(_, '%Y-%m-%d'), date subtraction and strftime.        *)

DateStrings == {"2023-02-30", "2024-01-01", "2024-01-31", "2024-02-01"}

\* order_date strings with one that is not zero-padded: strptime reads
\* '2024-1-5' as 5 January 2024
UnpaddedDateStrings == {"2024-01-01", "2024-01-31", "2024-1-5"}

\* x['order_date'] as a sort key: rank of the string in Python's str order
StrOrd(s) ==
    CASE s = "2023-02-30" -> 1
      [] s = "2024-01-01" -> 2
      [] s = "2024-01-31" -> 3
      [] s = "2024-02-01" -> 4
      [] s = "2024-1-5" -> 5

\* datetime.strptime(s, '%Y-%m-%d') does not raise (2023-02-30 is no date)
Parses(s) == s \in {"2024-01-01", "2024-01-31", "2024-02-01", "2024-1-5"}

\* the parsed date, as days since 2024-01-01
strptime(s) ==
    CASE s = "2024-01-01" -> 0
      [] s = "2024-01-31" -> 30
      [] s = "2024-02-01" -> 31
      [] s = "2024-1-5" -> 4

\* order_date.strftime('%Y-%m')
strftime(s) ==
    CASE s = "2024-01-01" -> "2024-01"
      [] s = "2024-01-31" -> "2024-01"
      [] s = "2024-02-01" -> "2024-02"
      [] s = "2024-1-5" -> "2024-01"

\* the target months of the model
Months == {"2024-01"}

\* the months a Monthly Analysis request may name
RequestMonths == {"2024-01", "2024-02"}

-----------------------------------------------------------------------------
(* Inputs *)

\* (silver_revenue, gold_revenue, promo_amount) of a parsed order
Amounts == {<<1000, 0, 0>>, <<1000, 1000, 3000>>}

OrderPool ==
    {[order_date |-> d, silver_revenue |-> a[1], gold_revenue |-> a[2],
      promo_amount |-> a[3]] : d \in DateStrings, a \in Amounts}

\* parsed orders whose dates all parse, one of them not zero-padded
UnpaddedOrderPool ==
    {[order_date |-> d, silver_revenue |-> a[1], gold_revenue |-> a[2],
      promo_amount |-> a[3]] : d \in UnpaddedDateStrings, a \in Amounts}

CustomerIds == {"c1", "c2"}

SeqsUpTo(S, n) == UNION {[1..k -> S] : k \in 0..n}

\* float('inf')
Infinity == 1000000000

SortedBrackets ==
    <<[min |-> 0, max |-> 1000, label |-> "0-1000"],
      [min |-> 1000, max |-> 1900, label |-> "1000-1900"],
      [min |-> 1900, max |-> Infinity, label |-> "1900-inf"]>>

\* the UI only warns about a min below the previous max; the last max may be finite
UnsortedBrackets ==
    <<[min |-> 0, max |-> 1500, label |-> "0-1500"],
      [min |-> 0, max |-> 1000, label |-> "0-1000"],
      [min |-> 1000, max |-> 1200, label |-> "1000-1200"]>>

Rates(s, g, r) == [silver_cb |-> s, gold_cb |-> g, redeem_pct |-> r]

Labels(brackets) == {brackets[i].label : i \in 1..Len(brackets)}

DefaultRates(brackets) == [l \in Labels(brackets) |-> Rates(4, 2, 20)]

TieredRates ==
    [l \in Labels(SortedBrackets) |->
        CASE l = "0-1000" -> Rates(4, 2, 20)
          [] l = "1000-1900" -> Rates(5, 3, 2)
          [] l = "1900-inf" -> Rates(6, 4, 2)]

\* st.number_input for Redeem% has no min_value
NegativeRedeemRates == [l \in Labels(SortedBrackets) |-> Rates(4, 2, -20)]

Configs ==
    {[ltv_brackets |-> SortedBrackets, cashback_config |-> TieredRates,
      expiry_days |-> 30],
     [ltv_brackets |-> SortedBrackets, cashback_config |-> NegativeRedeemRates,
      expiry_days |-> 30],
     [ltv_brackets |-> UnsortedBrackets, cashback_config |-> DefaultRates(UnsortedBrackets),
      expiry_days |-> 180]}

\* st.number_input for Silver CB%, Gold CB% and Redeem% has neither min_value
\* nor max_value: rates below 0 and above 100
ExtremeRates ==
    [l \in Labels(SortedBrackets) |->
        CASE l = "0-1000" -> Rates(150, -200, 150)
          [] l = "1000-1900" -> Rates(4, 2, 150)
          [] l = "1900-inf" -> Rates(-4, 2, -20)]

\* ordinary, negative and above-100 rates
RateConfigs ==
    {[ltv_brackets |-> SortedBrackets, cashback_config |-> TieredRates,
      expiry_days |-> 30],
     [ltv_brackets |-> SortedBrackets, cashback_config |-> NegativeRedeemRates,
      expiry_days |-> 30],
     [ltv_brackets |-> SortedBrackets, cashback_config |-> ExtremeRates,
      expiry_days |-> 30]}

-----------------------------------------------------------------------------
(* Helpers *)

Min(a, b) == IF a < b THEN a ELSE b

Max(a, b) == IF a > b THEN a ELSE b

RECURSIVE SumBalance(_)
\* sum(txn['balance'] for txn in wallet_transactions)
SumBalance(w) == IF w = <<>> THEN 0 ELSE Head(w).balance + SumBalance(Tail(w))

RECURSIVE InsertByDate(_, _)
\* place x after every element whose key is <= x's key (stable)
InsertByDate(x, s) ==
    IF s = <<>> THEN <<x>>
    ELSE IF StrOrd(Head(s).order_date) <= StrOrd(x.order_date)
         THEN <<Head(s)>> \o InsertByDate(x, Tail(s))
         ELSE <<x>> \o s

RECURSIVE SortByDate(_)
\* order_history.sort(key=lambda x: x['order_date']): stable, by the date string
SortByDate(s) ==
    IF s = <<>> THEN <<>>
    ELSE InsertByDate(s[Len(s)], SortByDate(SubSeq(s, 1, Len(s) - 1)))

RECURSIVE ScanBracketsInclusive(_, _, _)
\* the scan with ltv <= bracket['max']
ScanBracketsInclusive(ltv, brackets, i) ==
    IF i > Len(brackets) THEN brackets[Len(brackets)].label
    ELSE IF ltv <= brackets[i].max THEN brackets[i].label
    ELSE ScanBracketsInclusive(ltv, brackets, i + 1)

RECURSIVE ScanBrackets(_, _, _)
\* for bracket in brackets: if ltv < bracket['max']: return its label; else the last label
ScanBrackets(ltv, brackets, i) ==
    IF i > Len(brackets) THEN brackets[Len(brackets)].label
    ELSE IF ltv < brackets[i].max THEN brackets[i].label
    ELSE ScanBrackets(ltv, brackets, i + 1)

\* get_ltv_bracket(ltv, brackets)
get_ltv_bracket(ltv, brackets) == ScanBrackets(ltv, brackets, 1)

\* the expiry test with the configured window ignored: coins last the day they are earned
UnexpiredSameDay(txn, order_date, days) == order_date - txn.earned_date <= 0

\* the expiry test with the boundary day left out
UnexpiredStrict(txn, order_date, days) == order_date - txn.earned_date < days

\* the expiry filter: keep txn when (order_date - txn['earned_date']).days <= expiry_days
Unexpired(txn, order_date, days) == order_date - txn.earned_date <= days

\* the ledger read without the expiry filter
RemoveExpiredNever(w, order_date, days) == w

RemoveExpired(w, order_date, days) ==
    SelectSeq(w, LAMBDA txn : Unexpired(txn, order_date, days))

RECURSIVE DeductLIFO(_, _)
\* the deduction loop run over the newest entry first
DeductLIFO(w, remaining) ==
    IF w = <<>> \/ remaining <= 0 THEN w
    ELSE LET last == w[Len(w)]
             deduction == Min(last.balance, remaining)
         IN  DeductLIFO(SubSeq(w, 1, Len(w) - 1), remaining - deduction)
                 \o <<[last EXCEPT !.balance = @ - deduction]>>

RECURSIVE DeductUncapped(_, _)
\* the deduction loop with deduction = remaining, the min with the balance forgotten
DeductUncapped(w, remaining) ==
    IF w = <<>> \/ remaining <= 0 THEN w
    ELSE <<[Head(w) EXCEPT !.balance = @ - remaining]>> \o DeductUncapped(Tail(w), 0)

RECURSIVE DeductFIFO(_, _)
\* for txn in wallet_transactions: if remaining <= 0: break; deduct min(balance, remaining)
DeductFIFO(w, remaining) ==
    IF w = <<>> \/ remaining <= 0 THEN w
    ELSE LET deduction == Min(Head(w).balance, remaining)
         IN  <<[Head(w) EXCEPT !.balance = @ - deduction]>>
                 \o DeductFIFO(Tail(w), remaining - deduction)


\* One pass of the loop body over a valid order: lines 206-249 of
\* calculate_cashback, repeated verbatim as lines 100-143 of
\* calculate_cashback_for_month (the entry's 'expiry_days' key, which nothing
\* reads, is left out).  order_date is the parsed date.
PriceOrder(wallet_transactions, cumulative_ltv, order, order_date, order_num) ==
    LET current_bracket == get_ltv_bracket(cumulative_ltv, ltv_brackets)
        cfg == cashback_config[current_bracket]
        live == RemoveExpired(wallet_transactions, order_date, expiry_days)
        wallet_balance == SumBalance(live)
        order_value == order.silver_revenue + order.gold_revenue
        silver_cashback == (order.silver_revenue * cfg.silver_cb) \div 100
        gold_cashback == (order.gold_revenue * cfg.gold_cb) \div 100
        total_cashback == silver_cashback + gold_cashback
        max_usable == (order_value * cfg.redeem_pct) \div 100
        coins_used == IF order_num > 1 THEN Min(wallet_balance, max_usable) ELSE 0
        redeemed == IF order_num > 1 THEN DeductFIFO(live, coins_used) ELSE live
        credited == IF total_cashback > 0
                    THEN Append(redeemed, [balance |-> total_cashback,
                                           earned_date |-> order_date])
                    ELSE redeemed
        amount_paid == order_value - coins_used - order.promo_amount
    IN  [current_bracket |-> current_bracket,
         ltv_before |-> cumulative_ltv,
         wallet_in |-> wallet_transactions,
         wallet_live |-> live,
         wallet_balance |-> wallet_balance,
         order_value |-> order_value,
         silver_cashback |-> silver_cashback,
         gold_cashback |-> gold_cashback,
         total_cashback |-> total_cashback,
         max_usable |-> max_usable,
         coins_used |-> coins_used,
         wallet_redeemed |-> redeemed,
         wallet_out |-> credited,
         amount_paid |-> amount_paid,
         cumulative_ltv |-> cumulative_ltv + amount_paid]

NoStep == [driver |-> "none", skipped |-> TRUE]

NoHist == [full |-> <<>>, month |-> <<>>]

HistEntry(order, p) ==
    [order |-> order, current_bracket |-> p.current_bracket,
     ltv_before |-> p.ltv_before, order_value |-> p.order_value,
     coins_used |-> p.coins_used, amount_paid |-> p.amount_paid,
     expired |-> SumBalance(p.wallet_in) - SumBalance(p.wallet_live),
     credited |-> SumBalance(p.wallet_out) - SumBalance(p.wallet_redeemed)]

-----------------------------------------------------------------------------
(* calculate_cashback: the full-history driver *)

NoLocals == [order_history |-> <<>>, i |-> 1]

\* customer_results[customer_id] = {...}
PutResult(cr, cid, rec) == [c \in DOMAIN cr \cup {cid} |-> IF c = cid THEN rec ELSE cr[c]]

\* for idx, row in df.iterrows(): the per-customer initialisation
full_locals(order_history) ==
    [order_history |-> SortByDate(order_history),
     i |-> 1,
     wallet_transactions |-> <<>>,
     cumulative_ltv |-> 0,
     total_silver_rev |-> 0,
     total_gold_rev |-> 0,
     total_promo |-> 0,
     total_silver_cb |-> 0,
     total_gold_cb |-> 0,
     total_coins_used |-> 0,
     repeat_revenue |-> 0]

\* the update with cumulative_ltv += order_value, the discounts forgotten
full_update_gross(s, order, order_num, p) ==
    [s EXCEPT !.wallet_transactions = p.wallet_out,
              !.cumulative_ltv = @ + p.order_value,
              !.repeat_revenue = IF order_num > 1 THEN @ + p.order_value ELSE @,
              !.total_silver_rev = @ + order.silver_revenue,
              !.total_gold_rev = @ + order.gold_revenue,
              !.total_promo = @ + order.promo_amount,
              !.total_silver_cb = @ + p.silver_cashback,
              !.total_gold_cb = @ + p.gold_cashback,
              !.total_coins_used = @ + p.coins_used]

\* the update with cumulative_ltv = amount_paid in place of +=
full_update_assign(s, order, order_num, p) ==
    [s EXCEPT !.wallet_transactions = p.wallet_out,
              !.cumulative_ltv = p.amount_paid,
              !.repeat_revenue = IF order_num > 1 THEN @ + p.order_value ELSE @,
              !.total_silver_rev = @ + order.silver_revenue,
              !.total_gold_rev = @ + order.gold_revenue,
              !.total_promo = @ + order.promo_amount,
              !.total_silver_cb = @ + p.silver_cashback,
              !.total_gold_cb = @ + p.gold_cashback,
              !.total_coins_used = @ + p.coins_used]

\* the update with amount_paid clamped at 0 before it is added to cumulative_ltv
full_update_clamped(s, order, order_num, p) ==
    [s EXCEPT !.wallet_transactions = p.wallet_out,
              !.cumulative_ltv = @ + Max(p.amount_paid, 0),
              !.repeat_revenue = IF order_num > 1 THEN @ + p.order_value ELSE @,
              !.total_silver_rev = @ + order.silver_revenue,
              !.total_gold_rev = @ + order.gold_revenue,
              !.total_promo = @ + order.promo_amount,
              !.total_silver_cb = @ + p.silver_cashback,
              !.total_gold_cb = @ + p.gold_cashback,
              !.total_coins_used = @ + p.coins_used]

\* what the loop body stores once the order is priced: the ledger, cumulative_ltv
\* and the customer's running totals
full_update(s, order, order_num, p) ==
    [s EXCEPT !.wallet_transactions = p.wallet_out,
              !.cumulative_ltv = p.cumulative_ltv,
              !.repeat_revenue = IF order_num > 1 THEN @ + p.order_value ELSE @,
              !.total_silver_rev = @ + order.silver_revenue,
              !.total_gold_rev = @ + order.gold_revenue,
              !.total_promo = @ + order.promo_amount,
              !.total_silver_cb = @ + p.silver_cashback,
              !.total_gold_cb = @ + p.gold_cashback,
              !.total_coins_used = @ + p.coins_used]

\* the body of  for order_num, order in enumerate(order_history, 1)  on a valid order
full_body(s, order, order_num) ==
    full_update(s, order, order_num,
                PriceOrder(s.wallet_transactions, s.cumulative_ltv, order,
                           strptime(order.order_date), order_num))

\* monthly_results.append({...})
trace_row(customer_id, order, p) ==
    [customer_id |-> customer_id,
     month |-> strftime(order.order_date),
     order_date |-> strptime(order.order_date),
     ltv_bracket |-> p.current_bracket,
     silver_rev |-> order.silver_revenue,
     gold_rev |-> order.gold_revenue,
     silver_cb |-> p.silver_cashback,
     gold_cb |-> p.gold_cashback,
     coins_used |-> p.coins_used,
     wallet_balance |-> SumBalance(p.wallet_out)]

\* customer_results[customer_id] = {...} after the customer's loop
full_record(s) ==
    [final_ltv |-> s.cumulative_ltv,
     total_silver_rev |-> s.total_silver_rev,
     total_gold_rev |-> s.total_gold_rev,
     repeat_revenue |-> s.repeat_revenue,
     total_promo |-> s.total_promo,
     total_silver_cb |-> s.total_silver_cb,
     total_gold_cb |-> s.total_gold_cb,
     total_coins_used |-> s.total_coins_used,
     final_wallet_balance |-> SumBalance(s.wallet_transactions),
     num_orders |-> Len(s.order_history)]

\* customer ids are opaque: the first row of df is customer c1
RowIds(n) == IF n = 0 THEN {"c1"} ELSE CustomerIds

\* the next row of df reaches the driver: parse, sort, zero the locals
calculate_cashback_row ==
    /\ pc = "rows"
    /\ df_size < MaxSize
    /\ \E cid \in RowIds(n_rows), oh \in SeqsUpTo(OrderPool, MaxSize - df_size) :
          /\ row' = [customer_id |-> cid, order_history |-> oh]
          /\ f' = full_locals(oh)
          /\ df_size' = df_size + Max(1, Len(oh))
    /\ n_rows' = n_rows + 1
    /\ pc' = "month_row"
    /\ step' = NoStep
    /\ hist' = NoHist
    /\ UNCHANGED <<request, df, view, parser, config, customer_results, monthly_results, m, results>>

\* one iteration of the order loop
calculate_cashback_order ==
    /\ pc = "full"
    /\ f.i <= Len(f.order_history)
    /\ LET order == f.order_history[f.i]
       IN  IF ~Parses(order.order_date)
           THEN \* except: continue
                /\ f' = [f EXCEPT !.i = @ + 1]
                /\ step' = [driver |-> "full", skipped |-> TRUE, order |-> order,
                            order_num |-> f.i]
                /\ UNCHANGED <<monthly_results, hist>>
           ELSE LET p == PriceOrder(f.wallet_transactions, f.cumulative_ltv, order,
                                    strptime(order.order_date), f.i)
                IN  /\ f' = [full_update(f, order, f.i, p) EXCEPT !.i = @ + 1]
                    /\ monthly_results' =
                           Append(monthly_results, trace_row(row.customer_id, order, p))
                    /\ step' = [driver |-> "full", skipped |-> FALSE, order |-> order,
                                order_num |-> f.i, valid_index |-> Len(hist.full) + 1,
                                p |-> p]
                    /\ hist' = [hist EXCEPT !.full = Append(@, HistEntry(order, p))]
    /\ UNCHANGED <<request, df, view, parser, config, pc, n_rows, df_size, row, customer_results, m, results>>

\* after the loop: the customer's lifetime record
calculate_cashback_customer ==
    /\ pc = "full"
    /\ f.i > Len(f.order_history)
    /\ customer_results' = PutResult(customer_results, row.customer_id, full_record(f))
    /\ pc' = "month"
    /\ UNCHANGED <<request, df, view, parser, config, n_rows, df_size, row, f, monthly_results, m, results,
                   step, hist>>

-----------------------------------------------------------------------------
(* calculate_cashback_for_month: the month-scoped driver *)

EmptyBucket ==
    [total_silver_rev |-> 0,
     total_gold_rev |-> 0,
     total_promo |-> 0,
     total_silver_cb |-> 0,
     total_gold_cb |-> 0,
     total_coins_used |-> 0,
     total_coin_balance |-> 0,
     unique_customers |-> {}]

\* results = {...}: one bucket per bracket label, or a single bucket
month_results_init(with_ltv, brackets) ==
    IF with_ltv THEN [l \in Labels(brackets) |-> EmptyBucket] ELSE EmptyBucket

\* for idx, row in df.iterrows(): the per-customer initialisation
month_locals(order_history) ==
    [order_history |-> SortByDate(order_history),
     i |-> 1,
     wallet_transactions |-> <<>>,
     cumulative_ltv |-> 0,
     order_num |-> 0,
     customer_contributed |-> FALSE]

\* what the loop body stores once the order is priced
month_update(s, order, month, p) ==
    [s EXCEPT !.order_num = @ + 1,
              !.wallet_transactions = p.wallet_out,
              !.cumulative_ltv = p.cumulative_ltv,
              !.customer_contributed = @ \/ (strftime(order.order_date) = month)]

\* the body of  for order in order_history  on a valid order
month_body(s, order, month) ==
    month_update(s, order, month,
                 PriceOrder(s.wallet_transactions, s.cumulative_ltv, order,
                            strptime(order.order_date), s.order_num + 1))

\* results[...]['total_*'] += ...;  results[...]['unique_customers'].add(customer_id)
AddOrder(bucket, customer_id, order, p) ==
    [bucket EXCEPT !.total_silver_rev = @ + order.silver_revenue,
                   !.total_gold_rev = @ + order.gold_revenue,
                   !.total_promo = @ + order.promo_amount,
                   !.total_silver_cb = @ + p.silver_cashback,
                   !.total_gold_cb = @ + p.gold_cashback,
                   !.total_coins_used = @ + p.coins_used,
                   !.unique_customers = @ \cup {customer_id}]

\* the accumulation without the is_target_month test
month_accumulate_every(res, with_ltv, is_target_month, customer_id, order, p) ==
    IF with_ltv
    THEN [res EXCEPT ![p.current_bracket] = AddOrder(@, customer_id, order, p)]
    ELSE AddOrder(res, customer_id, order, p)

\* the accumulation with the order added to the bucket of every bracket
month_accumulate_all(res, with_ltv, is_target_month, customer_id, order, p) ==
    IF ~is_target_month THEN res
    ELSE IF with_ltv
         THEN [l \in DOMAIN res |-> AddOrder(res[l], customer_id, order, p)]
         ELSE AddOrder(res, customer_id, order, p)

\* if is_target_month: accumulate the order into its bucket
month_accumulate(res, with_ltv, is_target_month, customer_id, order, p) ==
    IF ~is_target_month THEN res
    ELSE IF with_ltv
         THEN [res EXCEPT ![p.current_bracket] = AddOrder(@, customer_id, order, p)]
         ELSE AddOrder(res, customer_id, order, p)

\* the final wallet added for every customer, customer_contributed not tested
month_final_wallet_always(res, with_ltv, s, brackets) ==
    LET final_wallet == SumBalance(s.wallet_transactions)
        final_bracket == get_ltv_bracket(s.cumulative_ltv, brackets)
    IN  IF with_ltv
        THEN [res EXCEPT ![final_bracket].total_coin_balance = @ + final_wallet]
        ELSE [res EXCEPT !.total_coin_balance = @ + final_wallet]

\* if customer_contributed: add the final wallet to the single bucket or the final bracket's
month_final_wallet(res, with_ltv, s, brackets) ==
    LET final_wallet == SumBalance(s.wallet_transactions)
        final_bracket == get_ltv_bracket(s.cumulative_ltv, brackets)
    IN  IF ~s.customer_contributed THEN res
        ELSE IF with_ltv
             THEN [res EXCEPT ![final_bracket].total_coin_balance = @ + final_wallet]
             ELSE [res EXCEPT !.total_coin_balance = @ + final_wallet]

\* the same row of df reaches the month-scoped driver; both drivers have now
\* read the row's order_history
calculate_cashback_for_month_row ==
    /\ pc = "month_row"
    /\ m' = month_locals(row.order_history)
    /\ row' = [row EXCEPT !.order_history = <<>>]
    /\ pc' = "full"
    /\ UNCHANGED <<request, df, view, parser, config, n_rows, df_size, f, customer_results,
                   monthly_results, results, step, hist>>

\* one iteration of the order loop
calculate_cashback_for_month_order ==
    /\ pc = "month"
    /\ m.i <= Len(m.order_history)
    /\ LET order == m.order_history[m.i]
       IN  IF ~Parses(order.order_date)
           THEN \* except: continue
                /\ m' = [m EXCEPT !.i = @ + 1]
                /\ step' = [driver |-> "month", skipped |-> TRUE, order |-> order,
                            order_num |-> m.order_num]
                /\ UNCHANGED <<results, hist>>
           ELSE LET order_num == m.order_num + 1
                    is_target_month == strftime(order.order_date) = target_month
                    p == PriceOrder(m.wallet_transactions, m.cumulative_ltv, order,
                                    strptime(order.order_date), order_num)
                IN  /\ m' = [month_update(m, order, target_month, p) EXCEPT !.i = @ + 1]
                    /\ results' = month_accumulate(results, use_ltv, is_target_month,
                                                   row.customer_id, order, p)
                    /\ step' = [driver |-> "month", skipped |-> FALSE, order |-> order,
                                order_num |-> order_num,
                                valid_index |-> Len(hist.month) + 1, p |-> p]
                    /\ hist' = [hist EXCEPT !.month = Append(@, HistEntry(order, p))]
    /\ UNCHANGED <<request, df, view, parser, config, pc, n_rows, df_size, row, f, customer_results,
                   monthly_results>>

\* after the loop: the customer's final wallet balance
calculate_cashback_for_month_customer ==
    /\ pc = "month"
    /\ m.i > Len(m.order_history)
    /\ results' = month_final_wallet(results, use_ltv, m, ltv_brackets)
    /\ pc' = "rows"
    /\ UNCHANGED <<request, df, view, parser, config, n_rows, df_size, row, f, customer_results,
                   monthly_results, m, step, hist>>

\* df is exhausted: both drivers return
return ==
    /\ pc = "rows"
    /\ pc' = "done"
    /\ UNCHANGED <<request, df, view, parser, config, n_rows, df_size, row, f, customer_results,
                   monthly_results, m, results, step, hist>>

-----------------------------------------------------------------------------
(* parse_order_history.  The text is a list of chunks: a chunk is a          *)
(* sub-record '{:order_id ...}' or text the sub-record pattern does not      *)
(* match.  A sub-record gives, for each key, whether the key occurs and the  *)
(* characters that follow the key and its whitespace.  Parsed amounts are    *)
(* in hundredths.                                                            *)

Digits == {"0", "1", "2", "3", "5"}

DigitValue(c) ==
    CASE c = "0" -> 0 [] c = "1" -> 1 [] c = "2" -> 2 [] c = "3" -> 3 [] c = "5" -> 5

RECURSIVE TakeWhile(_, _)
\* the longest prefix of text made of characters of class: a greedy  [class]*
TakeWhile(text, class) ==
    IF text = <<>> \/ Head(text) \notin class THEN <<>>
    ELSE <<Head(text)>> \o TakeWhile(Tail(text), class)

Drop(text, n) == SubSeq(text, n + 1, Len(text))

\* group(1) of  ([\d,]+\.?\d*)M?  matched at the start of text; <<>> when
\* [\d,]+ matches nothing, which is no match
NumberGroup(text) ==
    LET whole == TakeWhile(text, Digits \cup {","})
        rest == Drop(text, Len(whole))
        dot == IF rest # <<>> /\ Head(rest) = "." THEN <<".">> ELSE <<>>
        frac == TakeWhile(Drop(rest, Len(dot)), Digits)
    IN  IF whole = <<>> THEN <<>> ELSE whole \o dot \o frac

\* the token handed to float() with its thousands separators
StripCommasNever(text) == text

\* .replace(',', '')
StripCommas(text) == SelectSeq(text, LAMBDA c : c # ",")

\* float(text) raises ValueError: text has no digit ('' and '.')
FloatRaises(text) == \A i \in 1..Len(text) : text[i] \notin Digits

RECURSIVE WholeValue(_)
WholeValue(digits) ==
    IF digits = <<>> THEN 0
    ELSE 10 * WholeValue(SubSeq(digits, 1, Len(digits) - 1)) + DigitValue(digits[Len(digits)])

\* float(text) for text = digits [. digits], in hundredths (at most two decimals)
FloatOf(text) ==
    LET whole == TakeWhile(text, Digits)
        rest == Drop(text, Len(whole))
        frac == IF rest = <<>> THEN <<>> ELSE Tail(rest)
        cents == IF Len(frac) = 0 THEN 0
                 ELSE IF Len(frac) = 1 THEN 10 * DigitValue(frac[1])
                 ELSE 10 * DigitValue(frac[1]) + DigitValue(frac[2])
    IN  100 * WholeValue(whole) + cents

\* a numeric field: float(match.group(1).replace(',', '')) if match else 0.0
NumberField(field) ==
    LET group == IF field.key THEN NumberGroup(field.text) ELSE <<>>
        cleaned == StripCommas(group)
    IN  IF group = <<>> THEN [raises |-> FALSE, value |-> 0]
        ELSE IF FloatRaises(cleaned) THEN [raises |-> TRUE, value |-> 0]
        ELSE [raises |-> FALSE, value |-> FloatOf(cleaned)]

\* the characters of [#A-Z0-9] the model uses
IdChars == {"#", "A", "1"}

Quotes == {"'"}

\* order_id: group(1) of  :order_id\s+["']?([#A-Z0-9]+)["']?  or 'N/A'
OrderIdField(field) ==
    LET text == IF field.text # <<>> /\ Head(field.text) \in Quotes
                THEN Tail(field.text) ELSE field.text
        group == TakeWhile(text, IdChars)
    IN  IF field.key /\ group # <<>> THEN group ELSE <<"N/A">>

\* order_date: group(1) of  :order_date\s+#t\s+["']([^"']+)["']  or 'N/A'
OrderDateField(field) ==
    IF field.key /\ field.tag /\ field.quoted /\ field.body # "" THEN field.body
    ELSE "N/A"

Key(text) == [key |-> TRUE, text |-> text]

NoKey == [key |-> FALSE, text |-> <<>>]

DateKey(tag, quoted, body) == [key |-> TRUE, tag |-> tag, quoted |-> quoted, body |-> body]

NoDateKey == [key |-> FALSE, tag |-> FALSE, quoted |-> FALSE, body |-> ""]

\* the texts of a numeric field: 1,000   12.5M   5.   ,   ,.   .5   -5   x
NumberTexts ==
    {<<"1", ",", "0", "0", "0">>, <<"1", "2", ".", "5", "M">>, <<"5", ".">>,
     <<",">>, <<",", ".">>, <<".", "5">>, <<"-", "5">>, <<"x">>}

\* the texts of order_id: 'A1'   #A1   a1
OrderIdTexts == {<<"'", "A", "1", "'">>, <<"#", "A", "1">>, <<"a", "1">>}

OrderDateFields ==
    {NoDateKey, DateKey(TRUE, TRUE, "2024-01-01"), DateKey(TRUE, TRUE, "2023-02-30"),
     DateKey(FALSE, TRUE, "2024-01-01"), DateKey(TRUE, FALSE, "2024-01-01"),
     DateKey(TRUE, TRUE, "")}

\* {:order_id 'A1' :order_date #t '2024-01-01' :silver_revenue 1,000}
PlainRecord ==
    [kind |-> "record",
     order_id |-> Key(<<"'", "A", "1", "'">>),
     order_date |-> DateKey(TRUE, TRUE, "2024-01-01"),
     silver_revenue |-> Key(<<"1", ",", "0", "0", "0">>),
     gold_revenue |-> NoKey,
     promo_amount |-> NoKey]

\* the sub-records of the model: the plain one with one field changed
SubRecords ==
    {[PlainRecord EXCEPT !.order_id = Key(t)] : t \in OrderIdTexts}
    \cup {[PlainRecord EXCEPT !.order_date = d] : d \in OrderDateFields}
    \cup {[PlainRecord EXCEPT !.silver_revenue = x] : x \in {NoKey} \cup {Key(t) : t \in NumberTexts}}
    \cup {[PlainRecord EXCEPT !.gold_revenue = Key(t)] : t \in NumberTexts}
    \cup {[PlainRecord EXCEPT !.promo_amount = Key(t)] : t \in NumberTexts}

\* text without a sub-record, such as 'nan'
PlainText == [kind |-> "text"]

Chunks == SubRecords \cup {PlainText}

\* re.findall(r'\{:order_id[^}]+\}', order_history_str)
findall(text) == SelectSeq(text, LAMBDA chunk : chunk.kind = "record")

\* the body of  for order_str in order_matches
parse_order(order_str) ==
    LET silver == NumberField(order_str.silver_revenue)
        gold == NumberField(order_str.gold_revenue)
        promo == NumberField(order_str.promo_amount)
    IN  [raises |-> silver.raises \/ gold.raises \/ promo.raises,
         order |-> [order_id |-> OrderIdField(order_str.order_id),
                    order_date |-> OrderDateField(order_str.order_date),
                    silver_revenue |-> silver.value,
                    gold_revenue |-> gold.value,
                    promo_amount |-> promo.value]]

\* orders = []; order_matches = re.findall(...)
parse_order_history ==
    /\ pc = "parse"
    /\ order_matches' = findall(order_history_str)
    /\ orders' = <<>>
    /\ pc' = "orders"
    /\ UNCHANGED <<request, df, view, order_history_str, config, n_rows, df_size, row, f, customer_results,
                   monthly_results, m, results, step, hist>>

\* one iteration of  for order_str in order_matches; a ValueError of float()
\* leaves the function
parse_order_history_order ==
    /\ pc = "orders"
    /\ order_matches # <<>>
    /\ LET parsed == parse_order(Head(order_matches))
       IN  IF parsed.raises
           THEN pc' = "raised" /\ UNCHANGED <<order_matches, orders>>
           ELSE /\ orders' = Append(orders, parsed.order)
                /\ order_matches' = Tail(order_matches)
                /\ pc' = pc
    /\ UNCHANGED <<request, df, view, order_history_str, config, n_rows, df_size, row, f, customer_results,
                   monthly_results, m, results, step, hist>>

\* return orders
parse_order_history_return ==
    /\ pc = "orders"
    /\ order_matches = <<>>
    /\ pc' = "parsed"
    /\ UNCHANGED <<request, df, view, parser, config, n_rows, df_size, row, f, customer_results,
                   monthly_results, m, results, step, hist>>

-----------------------------------------------------------------------------
(* The display: the summaries and rates computed from the tables the        *)
(* drivers return.  A rate is [kind, value]: kind "number" with the value   *)
(* in hundredths of a percent, or "nan" / "inf" as pandas gives them.       *)

NoView == [what |-> "none"]

RECURSIVE SumOver(_, _)
\* sum(f[x] for x in S)
SumOver(fn, S) ==
    IF S = {} THEN 0
    ELSE LET x == CHOOSE y \in S : TRUE
         IN  fn[x] + SumOver(fn, S \ {x})

\* a / b * 100 rounded to hundredths (a tie rounds up)
Percent(a, b) == (a * 10000 * 2 + b) \div (2 * b)

Number(v) == [kind |-> "number", value |-> v]

\* (a / b * 100).round(2) on a pandas Series: 0/0 is NaN, x/0 is inf
SeriesRate(a, b) ==
    IF b # 0 THEN Number(Percent(a, b))
    ELSE IF a = 0 THEN [kind |-> "nan", value |-> 0]
    ELSE [kind |-> "inf", value |-> 0]

\* .fillna(0)
fillna(rate) == IF rate.kind = "nan" THEN Number(0) ELSE rate

\* the row of a bracket without customers
ZeroRow(label) ==
    [LTV_Bracket |-> label, Users |-> 0, Gold_Revenue |-> 0, Silver_Revenue |-> 0,
     Repeat_Revenue |-> 0, Actual_Promo |-> 0, Silver_CB |-> 0, Gold_CB |-> 0,
     CB_Redeemed |-> 0, Total_Discount |-> 0, Coin_Balance |-> 0]

\* the summary with a customer placed by min <= final_ltv < max
create_summary_by_range(cr, brackets) ==
    [i \in 1..Len(brackets) |->
        LET label == brackets[i].label
            bracket_customers ==
                {cid \in DOMAIN cr : /\ brackets[i].min <= cr[cid].final_ltv
                                     /\ cr[cid].final_ltv < brackets[i].max}
            total(field) == SumOver([cid \in bracket_customers |-> cr[cid][field]],
                                    bracket_customers)
        IN  IF bracket_customers = {} THEN ZeroRow(label)
            ELSE [LTV_Bracket |-> label,
                  Users |-> Cardinality(bracket_customers),
                  Gold_Revenue |-> total("total_gold_rev"),
                  Silver_Revenue |-> total("total_silver_rev"),
                  Repeat_Revenue |-> total("repeat_revenue"),
                  Actual_Promo |-> total("total_promo"),
                  Silver_CB |-> total("total_silver_cb"),
                  Gold_CB |-> total("total_gold_cb"),
                  CB_Redeemed |-> total("total_coins_used"),
                  Total_Discount |->
                      SumOver([cid \in bracket_customers |->
                                  cr[cid].total_promo + cr[cid].total_coins_used],
                              bracket_customers),
                  Coin_Balance |-> total("final_wallet_balance")]]

\* create_summary_by_ltv(customer_results, ltv_brackets): one row per bracket
create_summary_by_ltv(cr, brackets) ==
    [i \in 1..Len(brackets) |->
        LET label == brackets[i].label
            bracket_customers ==
                {cid \in DOMAIN cr : get_ltv_bracket(cr[cid].final_ltv, brackets) = label}
            total(field) == SumOver([cid \in bracket_customers |-> cr[cid][field]],
                                    bracket_customers)
        IN  IF bracket_customers = {} THEN ZeroRow(label)
            ELSE [LTV_Bracket |-> label,
                  Users |-> Cardinality(bracket_customers),
                  Gold_Revenue |-> total("total_gold_rev"),
                  Silver_Revenue |-> total("total_silver_rev"),
                  Repeat_Revenue |-> total("repeat_revenue"),
                  Actual_Promo |-> total("total_promo"),
                  Silver_CB |-> total("total_silver_cb"),
                  Gold_CB |-> total("total_gold_cb"),
                  CB_Redeemed |-> total("total_coins_used"),
                  Total_Discount |->
                      SumOver([cid \in bracket_customers |->
                                  cr[cid].total_promo + cr[cid].total_coins_used],
                              bracket_customers),
                  Coin_Balance |-> total("final_wallet_balance")]]

\* summary_df['Redemption_Rate'] = (CB_Redeemed / Total_CB_Earned * 100).round(2)
ltv_redemption_rate(summary_row) ==
    SeriesRate(summary_row.CB_Redeemed, summary_row.Silver_CB + summary_row.Gold_CB)

RECURSIVE SumRows(_, _)
\* the 'sum' aggregation of a column over the rows of a group
SumRows(rows, column) ==
    IF rows = <<>> THEN 0 ELSE Head(rows)[column] + SumRows(Tail(rows), column)

\* create_monthly_summary(monthly_df, use_ltv): pd.DataFrame([]) has no
\* columns, so groupby raises KeyError on a trace without rows; otherwise one
\* row per month, or per month and bracket
create_monthly_summary(monthly_df, with_ltv) ==
    LET key(r) == IF with_ltv THEN <<r.month, r.ltv_bracket>> ELSE <<r.month>>
        keys == {key(monthly_df[k]) : k \in 1..Len(monthly_df)}
        group(g) == SelectSeq(monthly_df, LAMBDA r : key(r) = g)
    IN  IF monthly_df = <<>> THEN [raised |-> TRUE, grouped |-> <<>>]
        ELSE [raised |-> FALSE,
              grouped |->
                  [g \in keys |->
                      LET rows == group(g)
                      IN  [Users |-> Cardinality({rows[k].customer_id : k \in 1..Len(rows)}),
                           Silver_Revenue |-> SumRows(rows, "silver_rev"),
                           Gold_Revenue |-> SumRows(rows, "gold_rev"),
                           Silver_CB |-> SumRows(rows, "silver_cb"),
                           Gold_CB |-> SumRows(rows, "gold_cb"),
                           CB_Redeemed |-> SumRows(rows, "coins_used"),
                           Wallet_Balance |-> rows[Len(rows)].wallet_balance]]]

\* monthly_summary['CB_Rate'] = (CB_Redeemed / Total_CB * 100).round(2)
monthly_cb_rate(summary_row) ==
    SeriesRate(summary_row.CB_Redeemed, summary_row.Silver_CB + summary_row.Gold_CB)

\* a row of monthly_comparison, from a bucket of calculate_cashback_for_month
comparison_row(month, label, data) ==
    [Month |-> month, LTV_Bracket |-> label,
     Users |-> Cardinality(data.unique_customers),
     Gold_Revenue |-> data.total_gold_rev,
     Silver_Revenue |-> data.total_silver_rev,
     Actual_Promo |-> data.total_promo,
     Silver_CB |-> data.total_silver_cb,
     Gold_CB |-> data.total_gold_cb,
     CB_Redeemed |-> data.total_coins_used,
     Coin_Balance |-> data.total_coin_balance]

\* monthly_comparison for one target month: a row per bracket bucket, or one row
monthly_comparison(month, month_results, monthly_ltv_mode) ==
    IF monthly_ltv_mode
    THEN {comparison_row(month, l, month_results[l]) : l \in DOMAIN month_results}
    ELSE {comparison_row(month, "", month_results)}

\* monthly_comparison['Redemption_Rate'] =
\*     (CB_Redeemed / Total_CB_Earned * 100).fillna(0).round(2)
monthly_redemption_rate(comparison) ==
    fillna(SeriesRate(comparison.CB_Redeemed, comparison.Silver_CB + comparison.Gold_CB))

\* the KPI of the overview: total_cb_redeemed / total_cb_earned * 100 in plain
\* Python, which raises ZeroDivisionError on a zero denominator
kpi_redemption(cr) ==
    LET ids == DOMAIN cr
        total_cb_earned ==
            SumOver([cid \in ids |-> cr[cid].total_silver_cb + cr[cid].total_gold_cb], ids)
        total_cb_redeemed == SumOver([cid \in ids |-> cr[cid].total_coins_used], ids)
    IN  IF total_cb_earned = 0
        THEN [raised |-> TRUE, earned |-> 0, rate |-> Number(0)]
        ELSE [raised |-> FALSE, earned |-> total_cb_earned,
              rate |-> Number(Percent(total_cb_redeemed, total_cb_earned))]

\* the overview tab: the KPI metrics
show_kpi ==
    /\ pc = "done"
    /\ view' = [what |-> "kpi", kpi |-> kpi_redemption(customer_results)]
    /\ pc' = "shown"
    /\ UNCHANGED <<request, df, parser, config, n_rows, df_size, row, f, customer_results,
                   monthly_results, m, results, step, hist>>

\* the detailed tab of the LTV view: the bracket summary with its rates
show_ltv_summary ==
    /\ pc = "done"
    /\ LET summary_df == create_summary_by_ltv(customer_results, ltv_brackets)
       IN  view' = [what |-> "ltv_summary",
                    summary_df |-> summary_df,
                    Redemption_Rate |->
                        [i \in DOMAIN summary_df |-> ltv_redemption_rate(summary_df[i])]]
    /\ pc' = "shown"
    /\ UNCHANGED <<request, df, parser, config, n_rows, df_size, row, f, customer_results,
                   monthly_results, m, results, step, hist>>

\* the trends tab of the LTV view: create_monthly_summary over the trace
show_monthly_summary ==
    /\ pc = "done"
    /\ LET monthly_summary == create_monthly_summary(monthly_results, FALSE)
       IN  view' = [what |-> "monthly_summary",
                    raised |-> monthly_summary.raised,
                    monthly_summary |-> monthly_summary.grouped,
                    CB_Rate |-> [g \in DOMAIN monthly_summary.grouped |->
                                    monthly_cb_rate(monthly_summary.grouped[g])]]
    /\ pc' = "shown"
    /\ UNCHANGED <<request, df, parser, config, n_rows, df_size, row, f, customer_results,
                   monthly_results, m, results, step, hist>>

\* the detailed tab of the monthly view: monthly_comparison with its rates
show_monthly_comparison ==
    /\ pc = "done"
    /\ LET comparison == monthly_comparison(target_month, results, use_ltv)
       IN  view' = [what |-> "monthly_comparison",
                    monthly_comparison |-> comparison,
                    Redemption_Rate |->
                        [r \in comparison |-> monthly_redemption_rate(r)]]
    /\ pc' = "shown"
    /\ UNCHANGED <<request, df, parser, config, n_rows, df_size, row, f, customer_results,
                   monthly_results, m, results, step, hist>>

-----------------------------------------------------------------------------
(* The run *)

InitFrom(configs) ==
    /\ \E c \in configs :
          /\ ltv_brackets = c.ltv_brackets
          /\ cashback_config = c.cashback_config
          /\ expiry_days = c.expiry_days
    /\ target_month \in Months
    /\ use_ltv \in BOOLEAN
    /\ pc = "rows"
    /\ n_rows = 0
    /\ df_size = 0
    /\ row = [customer_id |-> "", order_history |-> <<>>]
    /\ f = NoLocals
    /\ customer_results = [c \in {} |-> 0]
    /\ monthly_results = <<>>
    /\ m = NoLocals
    /\ results = month_results_init(use_ltv, ltv_brackets)
    /\ step = NoStep
    /\ hist = NoHist
    /\ order_history_str = <<>>
    /\ order_matches = <<>>
    /\ orders = <<>>
    /\ view = NoView
    /\ selected_months = <<>>
    /\ month_index = 0
    /\ df = <<>>

\* the run under the sidebar configurations of Configs
Init == InitFrom(Configs)

\* the run under the sidebar configurations of RateConfigs
InitRates == InitFrom(RateConfigs)

Next ==
    \/ calculate_cashback_row
    \/ calculate_cashback_order
    \/ calculate_cashback_customer
    \/ calculate_cashback_for_month_row
    \/ calculate_cashback_for_month_order
    \/ calculate_cashback_for_month_customer
    \/ return

Spec == Init /\ [][Next]_vars

SpecRates == InitRates /\ [][Next]_vars

\* the sidebar configuration under which the display is modelled
ViewConfigs ==
    {[ltv_brackets |-> SortedBrackets, cashback_config |-> TieredRates,
      expiry_days |-> 30]}

InitView == InitFrom(ViewConfigs)

\* the drivers, then one computation of the display over what they returned
NextView ==
    \/ Next
    \/ show_kpi
    \/ show_ltv_summary
    \/ show_monthly_summary
    \/ show_monthly_comparison

SpecView == InitView /\ [][NextView]_vars

\* parse_order_history called on a text of at most MaxChunks chunks
InitParse ==
    /\ order_history_str \in SeqsUpTo(Chunks, MaxChunks)
    /\ order_matches = <<>>
    /\ orders = <<>>
    /\ pc = "parse"
    /\ ltv_brackets = SortedBrackets
    /\ cashback_config = TieredRates
    /\ expiry_days = 30
    /\ target_month \in Months
    /\ use_ltv = FALSE
    /\ n_rows = 0
    /\ df_size = 0
    /\ row = [customer_id |-> "", order_history |-> <<>>]
    /\ f = NoLocals
    /\ customer_results = [c \in {} |-> 0]
    /\ monthly_results = <<>>
    /\ m = NoLocals
    /\ results = EmptyBucket
    /\ step = NoStep
    /\ hist = NoHist
    /\ view = NoView
    /\ selected_months = <<>>
    /\ month_index = 0
    /\ df = <<>>

NextParse ==
    \/ parse_order_history
    \/ parse_order_history_order
    \/ parse_order_history_return

SpecParse == InitParse /\ [][NextParse]_vars

-----------------------------------------------------------------------------
(* Reference runs: a driver's order loop as a fold of its body over a list *)

IsValid(order) == Parses(order.order_date)

RECURSIVE full_loop(_, _, _)
\* for order_num, order in enumerate(order_history, 1), from position k on
full_loop(s, order_list, k) ==
    IF k > Len(order_list) THEN s
    ELSE IF ~IsValid(order_list[k]) THEN full_loop(s, order_list, k + 1)
    ELSE full_loop(full_body(s, order_list[k], k), order_list, k + 1)

RECURSIVE full_rows(_, _, _, _)
\* the rows that loop appends to monthly_results
full_rows(customer_id, s, order_list, k) ==
    IF k > Len(order_list) THEN <<>>
    ELSE IF ~IsValid(order_list[k]) THEN full_rows(customer_id, s, order_list, k + 1)
    ELSE LET p == PriceOrder(s.wallet_transactions, s.cumulative_ltv, order_list[k],
                             strptime(order_list[k].order_date), k)
         IN  <<trace_row(customer_id, order_list[k], p)>>
                 \o full_rows(customer_id, full_body(s, order_list[k], k), order_list, k + 1)

RECURSIVE month_loop(_, _, _, _)
\* for order in order_history, from position k on
month_loop(s, order_list, k, month) ==
    IF k > Len(order_list) THEN s
    ELSE IF ~IsValid(order_list[k]) THEN month_loop(s, order_list, k + 1, month)
    ELSE month_loop(month_body(s, order_list[k], month), order_list, k + 1, month)

\* the last n elements of a sequence
LastN(q, n) == SubSeq(q, Len(q) - n + 1, Len(q))

-----------------------------------------------------------------------------
(* The analysis over a whole DataFrame: each driver as the fold of its row  *)
(* loop over the rows of df.                                                *)

RECURSIVE full_run(_, _, _)
\* for idx, row in df.iterrows() of calculate_cashback, from the tables so far
full_run(cr, trace, rows) ==
    IF rows = <<>> THEN [customer_results |-> cr, monthly_results |-> trace]
    ELSE LET customer_id == Head(rows).customer_id
             init == full_locals(Head(rows).order_history)
             final == full_loop(init, init.order_history, 1)
         IN  full_run(PutResult(cr, customer_id, full_record(final)),
                      trace \o full_rows(customer_id, init, init.order_history, 1),
                      Tail(rows))

\* calculate_cashback(df, cashback_config, ltv_brackets, expiry_days)
calculate_cashback(rows) == full_run([c \in {} |-> 0], <<>>, rows)

RECURSIVE month_orders(_, _, _, _, _, _)
\* for order in order_history of calculate_cashback_for_month, from position k
\* on: the results and the customer's locals after the loop
month_orders(res, s, k, customer_id, month, with_ltv) ==
    IF k > Len(s.order_history) THEN [results |-> res, locals |-> s]
    ELSE LET order == s.order_history[k]
         IN  IF ~IsValid(order)
             THEN month_orders(res, s, k + 1, customer_id, month, with_ltv)
             ELSE LET p == PriceOrder(s.wallet_transactions, s.cumulative_ltv, order,
                                      strptime(order.order_date), s.order_num + 1)
                  IN  month_orders(
                          month_accumulate(res, with_ltv,
                                           strftime(order.order_date) = month,
                                           customer_id, order, p),
                          month_update(s, order, month, p),
                          k + 1, customer_id, month, with_ltv)

RECURSIVE month_run(_, _, _, _)
\* for idx, row in df.iterrows() of calculate_cashback_for_month
month_run(res, rows, month, with_ltv) ==
    IF rows = <<>> THEN res
    ELSE LET after == month_orders(res, month_locals(Head(rows).order_history), 1,
                                   Head(rows).customer_id, month, with_ltv)
         IN  month_run(month_final_wallet(after.results, with_ltv, after.locals,
                                          ltv_brackets),
                       Tail(rows), month, with_ltv)

\* calculate_cashback_for_month(df, target_month, cashback_config, ltv_brackets,
\*                              expiry_days, use_ltv)
calculate_cashback_for_month(rows, month, with_ltv) ==
    month_run(month_results_init(with_ltv, ltv_brackets), rows, month, with_ltv)

\* Run Analysis: the drivers are called on df
run_analysis ==
    /\ pc = "analysis"
    /\ LET returned == calculate_cashback(df)
       IN  /\ customer_results' = returned.customer_results
           /\ monthly_results' = returned.monthly_results
    /\ results' = calculate_cashback_for_month(df, target_month, use_ltv)
    /\ n_rows' = Len(df)
    /\ pc' = "done"
    /\ UNCHANGED <<request, df, view, parser, config, df_size, row, f, m, step, hist>>

Row(customer_id, order_history) ==
    [customer_id |-> customer_id, order_history |-> order_history]

RECURSIVE DataFramesOf(_, _)
\* the DataFrames of at most the given size whose orders are taken from pool
DataFramesOf(pool, size) ==
    IF size <= 0 THEN {<<>>}
    ELSE {<<>>} \cup
         UNION {{<<Row(cid, oh)>> \o rest :
                     rest \in DataFramesOf(pool, size - Max(1, Len(oh)))} :
                    cid \in CustomerIds, oh \in SeqsUpTo(pool, size)}

DataFrames(size) == DataFramesOf(OrderPool, size)

\* Run Analysis on one of the given DataFrames
InitWholeFrom(dataframes) ==
    /\ df \in dataframes
    /\ pc = "analysis"
    /\ \E c \in ViewConfigs :
          /\ ltv_brackets = c.ltv_brackets
          /\ cashback_config = c.cashback_config
          /\ expiry_days = c.expiry_days
    /\ target_month \in Months
    /\ use_ltv \in BOOLEAN
    /\ n_rows = 0
    /\ df_size = 0
    /\ row = [customer_id |-> "", order_history |-> <<>>]
    /\ f = NoLocals
    /\ customer_results = [c \in {} |-> 0]
    /\ monthly_results = <<>>
    /\ m = NoLocals
    /\ results = month_results_init(use_ltv, ltv_brackets)
    /\ step = NoStep
    /\ hist = NoHist
    /\ order_history_str = <<>>
    /\ order_matches = <<>>
    /\ orders = <<>>
    /\ view = NoView
    /\ selected_months = <<>>
    /\ month_index = 0

\* Run Analysis on a DataFrame of at most MaxSize
InitWhole == InitWholeFrom(DataFrames(MaxSize))

\* Run Analysis on a DataFrame of at most MaxSize with a date that is not zero-padded
InitUnpadded == InitWholeFrom(DataFramesOf(UnpaddedOrderPool, MaxSize))

\* Run Analysis on a DataFrame of less than MaxSize
InitSmall == InitWholeFrom(DataFrames(MaxSize - 1))

NextWhole == run_analysis

SpecWhole == InitWhole /\ [][NextWhole]_vars

SpecSmall == InitSmall /\ [][NextWhole]_vars

SpecUnpadded == InitUnpadded /\ [][NextWhole]_vars

-----------------------------------------------------------------------------
(* Monthly Analysis: Run Analysis with view_mode "Monthly Analysis" and a   *)
(* non-empty list of months calls calculate_cashback_for_month once per     *)
(* month of the list; each call iterates every row of df.                   *)

\* one iteration of  for target_month in selected_months: the rows the
\* iteration appends to monthly_comparison are kept as one element of the list
monthly_analysis_month ==
    /\ pc = "analysis"
    /\ month_index < Len(selected_months)
    /\ target_month' = selected_months[month_index + 1]
    /\ results' = calculate_cashback_for_month(df, target_month', use_ltv)
    /\ n_rows' = n_rows + Len(df)
    /\ view' = [what |-> "monthly_analysis",
                monthly_comparison |->
                    Append(IF view.what = "none" THEN <<>> ELSE view.monthly_comparison,
                           monthly_comparison(target_month', results', use_ltv))]
    /\ month_index' = month_index + 1
    /\ UNCHANGED <<selected_months, df, parser, ltv_brackets, cashback_config,
                   expiry_days, use_ltv, pc, df_size, row, f, customer_results,
                   monthly_results, m, step, hist>>

\* after the loop: st.session_state['monthly_comparison'] = pd.DataFrame(monthly_comparison)
monthly_analysis_done ==
    /\ pc = "analysis"
    /\ month_index = Len(selected_months)
    /\ pc' = "done"
    /\ UNCHANGED <<request, df, view, parser, config, n_rows, df_size, row, f,
                   customer_results, monthly_results, m, results, step, hist>>

\* a Monthly Analysis request for at most MaxMonths months on a DataFrame
InitMonths ==
    /\ df \in DataFrames(MaxSize - 1)
    /\ selected_months \in SeqsUpTo(RequestMonths, MaxMonths) \ {<<>>}
    /\ month_index = 0
    /\ pc = "analysis"
    /\ \E c \in ViewConfigs :
          /\ ltv_brackets = c.ltv_brackets
          /\ cashback_config = c.cashback_config
          /\ expiry_days = c.expiry_days
    /\ target_month = ""
    /\ use_ltv \in BOOLEAN
    /\ n_rows = 0
    /\ df_size = 0
    /\ row = [customer_id |-> "", order_history |-> <<>>]
    /\ f = NoLocals
    /\ customer_results = [c \in {} |-> 0]
    /\ monthly_results = <<>>
    /\ m = NoLocals
    /\ results = month_results_init(use_ltv, ltv_brackets)
    /\ step = NoStep
    /\ hist = NoHist
    /\ order_history_str = <<>>
    /\ order_matches = <<>>
    /\ orders = <<>>
    /\ view = NoView

NextMonths == monthly_analysis_month \/ monthly_analysis_done

SpecMonths == InitMonths /\ [][NextMonths]_vars

-----------------------------------------------------------------------------
(* Properties *)

\* the loop body ran last, over a valid order
Stepped == step.driver # "none" /\ ~step.skipped

\* the full-history driver has just stored the current customer's record
FullCustomerDone == pc = "month"

\* the month-scoped driver has just finished the current customer
MonthCustomerDone == pc = "rows" /\ n_rows > 0

\* C1: in both drivers coins_used is 0 on a customer's first valid order,
\* whatever orders with an unparseable date precede it.
C1_FirstValidOrderNeverRedeems ==
    (Stepped /\ step.valid_index = 1) => step.p.coins_used = 0

\* C2: an order whose date does not parse leaves no trace: the customer's
\* lifetime record, trace rows and month-driver state are those of the same
\* order list without its unparseable orders.
C2_UnparseableOrderIsAbsent ==
    /\ FullCustomerDone =>
          LET valid == SelectSeq(f.order_history, IsValid)
              init == full_locals(valid)
          IN  /\ customer_results[row.customer_id] = full_record(full_loop(init, valid, 1))
              /\ LastN(monthly_results, Len(hist.full))
                     = full_rows(row.customer_id, init, valid, 1)
    /\ MonthCustomerDone =>
          LET valid == SelectSeq(m.order_history, IsValid)
              ref == month_loop(month_locals(valid), valid, 1, target_month)
          IN  /\ m.wallet_transactions = ref.wallet_transactions
              /\ m.cumulative_ltv = ref.cumulative_ltv
              /\ m.order_num = ref.order_num
              /\ m.customer_contributed = ref.customer_contributed


RECURSIVE BalanceBefore(_, _)
\* the balances of the entries older than entry k
BalanceBefore(w, k) == IF k <= 1 THEN 0 ELSE w[k - 1].balance + BalanceBefore(w, k - 1)

StepDate == strptime(step.order.order_date)

\* the ledger of the driver that ran last
CurrentWallet ==
    IF step.driver = "full" THEN f.wallet_transactions ELSE m.wallet_transactions

RECURSIVE BalanceWithin(_, _, _)
\* the balances of the entries earned at most days before date
BalanceWithin(w, date, days) ==
    IF w = <<>> THEN 0
    ELSE (IF date - Head(w).earned_date > days THEN 0 ELSE Head(w).balance)
             + BalanceWithin(Tail(w), date, days)

\* C4: an entry earned on day D is available to an order dated at most
\* D + expiry_days (inclusive) and to no order dated later; an entry removed
\* by expiry is in no later ledger.
C4_ExpiryBoundary ==
    Stepped =>
        LET w == step.p.wallet_in
            live == step.p.wallet_live
        IN  /\ step.p.wallet_balance = BalanceWithin(w, StepDate, expiry_days)
            /\ \A k \in 1..Len(w) :
                  (StepDate - w[k].earned_date <= expiry_days)
                      <=> (\E j \in 1..Len(live) : live[j] = w[k])
            /\ CurrentWallet = step.p.wallet_out
            /\ \A j \in 1..Len(CurrentWallet) :
                  /\ StepDate - CurrentWallet[j].earned_date <= expiry_days
                  /\ \/ CurrentWallet[j].earned_date = StepDate
                     \/ \E k \in 1..Len(w) :
                           /\ w[k].earned_date = CurrentWallet[j].earned_date
                           /\ CurrentWallet[j].balance <= w[k].balance

\* an order dated exactly expiry_days after an entry was earned still has its balance
C4_Witness ==
    /\ Stepped
    /\ \E k \in 1..Len(step.p.wallet_in) :
          /\ StepDate - step.p.wallet_in[k].earned_date = expiry_days
          /\ step.p.wallet_in[k].balance > 0
          /\ step.p.wallet_balance >= step.p.wallet_in[k].balance


\* what the driver that ran last computed for the current customer's valid orders
StepHist == IF step.driver = "full" THEN hist.full ELSE hist.month

RECURSIVE PaidBefore(_, _)
\* the sum of amount_paid over the valid orders before the n-th
PaidBefore(h, n) == IF n <= 1 THEN 0 ELSE h[n - 1].amount_paid + PaidBefore(h, n - 1)

\* C5: the bracket, and with it the cashback rates and the redeem percentage,
\* applied to valid order N is resolved from the sum of amount_paid of the
\* valid orders 1..N-1; order N's own amount_paid plays no part.
C5_BracketFromPriorLtv ==
    Stepped =>
        LET n == step.valid_index
            bracket == get_ltv_bracket(PaidBefore(StepHist, n), ltv_brackets)
            cfg == cashback_config[bracket]
            order == step.order
        IN  /\ n = Len(StepHist)
            /\ step.p.current_bracket = bracket
            /\ step.p.silver_cashback * 100 = order.silver_revenue * cfg.silver_cb
            /\ step.p.gold_cashback * 100 = order.gold_revenue * cfg.gold_cb
            /\ step.p.max_usable * 100 = step.p.order_value * cfg.redeem_pct

\* an order that lifts the customer into another bracket, with other rates, is
\* itself priced at the rates of the bracket the customer was in
C5_Witness ==
    /\ Stepped
    /\ step.valid_index >= 2
    /\ LET before == get_ltv_bracket(PaidBefore(StepHist, step.valid_index), ltv_brackets)
           after == get_ltv_bracket(PaidBefore(StepHist, step.valid_index + 1), ltv_brackets)
       IN  /\ before # after
           /\ cashback_config[before] # cashback_config[after]
           /\ step.p.current_bracket = before


\* C6: on every valid order after the first, coins_used is the smaller of the
\* ledger balance after expiry and order_value * redeem_pct / 100, and the
\* redemption lowers the ledger balance by exactly coins_used.
C6_CoinsUsedIsDeducted ==
    (Stepped /\ step.valid_index > 1) =>
        LET balance == SumBalance(step.p.wallet_live)
            cfg == cashback_config[step.p.current_bracket]
            cap == (step.p.order_value * cfg.redeem_pct) \div 100
        IN  /\ step.p.coins_used = Min(balance, cap)
            /\ SumBalance(step.p.wallet_redeemed) = balance - step.p.coins_used
            /\ step.p.coins_used <= balance
            /\ step.p.coins_used <= cap

\* the positions of the brackets whose max is strictly above value
Above(value, brackets) == {i \in 1..Len(brackets) : value < brackets[i].max}

\* C7: get_ltv_bracket returns the label of the first bracket, in the order
\* given, whose max is strictly greater than the value, and the label of the
\* last bracket when there is none; the list is taken as it is.
C7_FirstBracketAbove ==
    Stepped =>
        LET value == step.p.ltv_before
            above == Above(value, ltv_brackets)
        IN  step.p.current_bracket =
                IF above = {}
                THEN ltv_brackets[Len(ltv_brackets)].label
                ELSE ltv_brackets[CHOOSE i \in above : \A j \in above : i <= j].label

\* a value equal to the first bracket's max is put in the second bracket
C7_Witness ==
    /\ Stepped
    /\ step.p.ltv_before = ltv_brackets[1].max
    /\ step.p.current_bracket = ltv_brackets[2].label
    /\ ltv_brackets[2].label # ltv_brackets[1].label

RECURSIVE TraceRevenue(_, _)
\* sum of gold_rev + silver_rev over the trace rows of a month
TraceRevenue(rows, month) ==
    IF rows = <<>> THEN 0
    ELSE (IF Head(rows).month = month THEN Head(rows).gold_rev + Head(rows).silver_rev
          ELSE 0) + TraceRevenue(Tail(rows), month)

\* both drivers have processed the same rows of df
SameRowsDone == pc \in {"rows", "done"}

\* C8: Gold_Revenue + Silver_Revenue of calculate_cashback_for_month(M,
\* use_ltv=False) is the sum of gold_rev + silver_rev over the rows of
\* calculate_cashback's trace whose month is M.
C8_DriverRevenueAgrees ==
    (SameRowsDone /\ ~use_ltv) =>
        results.total_gold_rev + results.total_silver_rev
            = TraceRevenue(monthly_results, target_month)

\* two customers, revenue in the target month and a trace row of another month
C8_Witness ==
    /\ pc = "done"
    /\ ~use_ltv
    /\ n_rows >= 2
    /\ results.total_gold_rev + results.total_silver_rev > 0
    /\ \E k \in 1..Len(monthly_results) : monthly_results[k].month # target_month

RECURSIVE RepeatValue(_)
\* the sum of order_value over all entries but the first
RepeatValue(h) ==
    IF Len(h) <= 1 THEN 0 ELSE h[Len(h)].order_value + RepeatValue(SubSeq(h, 1, Len(h) - 1))

\* C9: the lifetime record's num_orders is the number of the customer's valid
\* orders, and repeat_revenue the sum of order_value over the valid orders
\* but the first.
C9_OrderCountAndRepeatRevenue ==
    FullCustomerDone =>
        /\ customer_results[row.customer_id].num_orders = Len(hist.full)
        /\ customer_results[row.customer_id].repeat_revenue = RepeatValue(hist.full)

\* the brackets are sorted ascending by their bound
BracketsSorted ==
    \A i, j \in 1..Len(ltv_brackets) : i < j => ltv_brackets[i].max <= ltv_brackets[j].max

\* the position of a label in the bracket list
Rank(label) == CHOOSE i \in 1..Len(ltv_brackets) : ltv_brackets[i].label = label

NeverRefunded(h) == \A k \in 1..Len(h) : h[k].amount_paid >= 0

RanksAscend(h) ==
    \A k \in 1..(Len(h) - 1) : Rank(h[k].current_bracket) <= Rank(h[k + 1].current_bracket)

\* C10: with brackets sorted ascending, a customer whose amount_paid is
\* non-negative on every valid order is priced in brackets of non-decreasing
\* rank.
C10_TierNeverDrops ==
    BracketsSorted =>
        /\ NeverRefunded(hist.full) => RanksAscend(hist.full)
        /\ NeverRefunded(hist.month) => RanksAscend(hist.month)

\* a customer who never paid a negative amount and moved up two brackets
C10_Witness ==
    /\ BracketsSorted
    /\ Len(hist.full) = 3
    /\ NeverRefunded(hist.full)
    /\ Rank(hist.full[1].current_bracket) < Rank(hist.full[2].current_bracket)
    /\ Rank(hist.full[2].current_bracket) < Rank(hist.full[3].current_bracket)

OrderA ==
    [order_date |-> "2024-01-01", silver_revenue |-> 1000, gold_revenue |-> 0,
     promo_amount |-> 0]

OrderB ==
    [order_date |-> "2024-01-31", silver_revenue |-> 1000, gold_revenue |-> 0,
     promo_amount |-> 0]

\* the full-history driver is on a customer whose orders are A and B, every
\* bracket carries silver_cb 4 and redeem_pct 20, and coins expire after 180 days
ScenarioAB ==
    /\ f.order_history = <<OrderA, OrderB>>
    /\ expiry_days = 180
    /\ \A l \in DOMAIN cashback_config :
          cashback_config[l].silver_cb = 4 /\ cashback_config[l].redeem_pct = 20

\* C11: in the scenario, order A earns 40, redeems 0 and pays 1000
\* (cumulative_ltv 1000); order B sees a balance of 40, redeems 40, earns 40
\* and pays 960; both are priced in one bracket; the lifetime record has
\* final_ltv 1960 and final_wallet_balance 40.
C11_ScenarioAB ==
    ScenarioAB =>
        /\ (Stepped /\ step.driver = "full" /\ step.valid_index = 1) =>
              /\ step.order = OrderA
              /\ step.p.total_cashback = 40
              /\ step.p.coins_used = 0
              /\ step.p.amount_paid = 1000
              /\ f.cumulative_ltv = 1000
              /\ SumBalance(f.wallet_transactions) = 40
        /\ (Stepped /\ step.driver = "full" /\ step.valid_index = 2) =>
              /\ step.order = OrderB
              /\ step.p.wallet_balance = 40
              /\ step.p.coins_used = 40
              /\ step.p.total_cashback = 40
              /\ step.p.amount_paid = 960
              /\ step.p.current_bracket = hist.full[1].current_bracket
              /\ f.cumulative_ltv = 1960
              /\ SumBalance(f.wallet_transactions) = 40
        /\ FullCustomerDone =>
              /\ Len(hist.full) = 2
              /\ customer_results[row.customer_id].final_ltv = 1960
              /\ customer_results[row.customer_id].final_wallet_balance = 40
              /\ customer_results[row.customer_id].total_coins_used = 40
              /\ customer_results[row.customer_id].total_silver_cb = 80

\* the scenario's customer has been simulated to the end
C11_Witness ==
    /\ ScenarioAB
    /\ FullCustomerDone
    /\ customer_results[row.customer_id].final_ltv = 1960

\* every entry of a ledger has a balance >= 0
NoNegativeEntry(w) == \A k \in 1..Len(w) : w[k].balance >= 0

\* C12: whatever the rates, no ledger entry has a negative balance, the sum of
\* the balances is >= 0, and an entry's balance never increases: the expiry
\* filter keeps entries as they are, the redemption only lowers balances, and
\* the credit only appends.
C12_LedgerNeverNegative ==
    Stepped =>
        LET w == step.p.wallet_in
            live == step.p.wallet_live
            redeemed == step.p.wallet_redeemed
            out == step.p.wallet_out
        IN  /\ NoNegativeEntry(w) /\ NoNegativeEntry(live)
            /\ NoNegativeEntry(redeemed) /\ NoNegativeEntry(out)
            /\ SumBalance(live) >= 0 /\ SumBalance(redeemed) >= 0
            /\ SumBalance(out) >= 0
            /\ CurrentWallet = out
            /\ \A j \in 1..Len(live) : \E k \in j..Len(w) : live[j] = w[k]
            /\ Len(redeemed) = Len(live)
            /\ \A k \in 1..Len(live) :
                  /\ redeemed[k].earned_date = live[k].earned_date
                  /\ redeemed[k].balance <= live[k].balance
            /\ Len(out) \in {Len(redeemed), Len(redeemed) + 1}
            /\ SubSeq(out, 1, Len(redeemed)) = redeemed

\* an order priced with a redeem percentage above 100 redeems more than its
\* own value and empties the ledger
C12_Witness ==
    /\ Stepped
    /\ cashback_config[step.p.current_bracket].redeem_pct > 100
    /\ step.p.wallet_balance > 0
    /\ step.p.coins_used > step.p.order_value
    /\ step.p.amount_paid < 0
    /\ SumBalance(step.p.wallet_redeemed) = 0

\* the current customer has a valid order in the target month
HasTargetMonthOrder ==
    \E k \in 1..Len(hist.month) : strftime(hist.month[k].order.order_date) = target_month

\* the bracket of the current customer's cumulative_ltv after the last valid order
TerminalBracket ==
    get_ltv_bracket(PaidBefore(hist.month, Len(hist.month) + 1), ltv_brackets)

\* total_coin_balance of every bucket
CoinBalances(res) ==
    IF use_ltv THEN [l \in DOMAIN res |-> res[l].total_coin_balance]
    ELSE res.total_coin_balance

\* C13: the month-scoped driver adds a customer's terminal wallet balance to
\* total_coin_balance exactly once, when the customer's order loop is over, if
\* and only if the customer has a valid order in the target month; with
\* use_ltv the bucket is that of the bracket resolved from the customer's
\* terminal cumulative_ltv; no other step changes a total_coin_balance.
C13_TerminalWalletOncePerContributor ==
    [][/\ (pc = "month" /\ pc' = "rows") =>
             LET wallet == SumBalance(m.wallet_transactions)
             IN  results' =
                     IF ~HasTargetMonthOrder THEN results
                     ELSE IF use_ltv
                          THEN [results EXCEPT ![TerminalBracket].total_coin_balance
                                                   = @ + wallet]
                          ELSE [results EXCEPT !.total_coin_balance = @ + wallet]
       /\ ~(pc = "month" /\ pc' = "rows") =>
             CoinBalances(results') = CoinBalances(results)]_vars

\* the first customer's wallet went to the bucket of a bracket that priced
\* none of the target-month orders
C13_Witness ==
    /\ MonthCustomerDone
    /\ use_ltv
    /\ n_rows = 1
    /\ HasTargetMonthOrder
    /\ results[TerminalBracket].total_coin_balance > 0
    /\ results[TerminalBracket].unique_customers = {}

\* the sub-record the k-th parsed order comes from
SourceOf(k) == findall(order_history_str)[k]

\* C14: parse_order_history never raises, and a numeric field that is absent
\* or whose text has no numeric shape gives 0.0 (a token made only of
\* thousands separators included), an absent or unmatched order_date gives
\* 'N/A', an unmatched order_id gives 'N/A'.
C14_ParseNeverRaises ==
    /\ pc # "raised"
    /\ \A k \in 1..Len(orders) :
          LET src == SourceOf(k)
              no_digit(field) == ~field.key \/ FloatRaises(field.text)
          IN  /\ no_digit(src.silver_revenue) => orders[k].silver_revenue = 0
              /\ no_digit(src.gold_revenue) => orders[k].gold_revenue = 0
              /\ no_digit(src.promo_amount) => orders[k].promo_amount = 0
              /\ ~(src.order_date.key /\ src.order_date.tag /\ src.order_date.quoted)
                    => orders[k].order_date = "N/A"
              /\ src.order_id.text[1] \notin IdChars \cup Quotes
                    => orders[k].order_id = <<"N/A">>

\* the customer ids that have a valid order: each valid order adds a trace row
CustomersWithValidOrder ==
    {monthly_results[k].customer_id : k \in 1..Len(monthly_results)}

\* C15: the lifetime table returned by the full-history driver has a row for a
\* customer id if and only if the customer has a valid order; a customer
\* without a valid order gets no row.
C15_OneRowPerCustomerWithValidOrder ==
    SameRowsDone => DOMAIN customer_results = CustomersWithValidOrder

\* the revenue, cashback and redemption totals of a lifetime record are zero
ZeroTotals(rec) ==
    /\ rec.final_ltv = 0 /\ rec.final_wallet_balance = 0
    /\ rec.total_silver_rev = 0 /\ rec.total_gold_rev = 0 /\ rec.total_promo = 0
    /\ rec.total_silver_cb = 0 /\ rec.total_gold_cb = 0
    /\ rec.total_coins_used = 0 /\ rec.repeat_revenue = 0

\* C16: a customer without a valid order gives no trace row and zero-valued
\* aggregates in both drivers, a dataset without rows gives empty results, and
\* create_summary_by_ltv and create_monthly_summary are computed from the
\* returned tables without raising.
C16_DegenerateInputIsNoError ==
    /\ (FullCustomerDone /\ hist.full = <<>>) =>
          /\ ZeroTotals(customer_results[row.customer_id])
          /\ n_rows = 1 => monthly_results = <<>>
    /\ (MonthCustomerDone /\ hist.month = <<>> /\ n_rows = 1) =>
          results = month_results_init(use_ltv, ltv_brackets)
    /\ (pc \in {"done", "shown"} /\ n_rows = 0) =>
          /\ DOMAIN customer_results = {}
          /\ monthly_results = <<>>
          /\ results = month_results_init(use_ltv, ltv_brackets)
    /\ (pc = "shown" /\ view.what = "ltv_summary") =>
          Len(view.summary_df) = Len(ltv_brackets)
    /\ (pc = "shown" /\ view.what = "monthly_summary") => ~view.raised

\* a rate is the number zero
IsZero(rate) == rate = Number(0)

\* C17: the redemption rate of the overall KPI, of every row of the
\* LTV-bracket view and of every row of the monthly view is zero, neither an
\* exception nor an undefined value, when the cashback earned is zero.
C17_ZeroDenominatorGivesZero ==
    /\ (pc = "shown" /\ view.what = "kpi") =>
          /\ ~view.kpi.raised
          /\ view.kpi.earned = 0 => IsZero(view.kpi.rate)
    /\ (pc = "shown" /\ view.what = "ltv_summary") =>
          \A i \in DOMAIN view.summary_df :
              view.summary_df[i].Silver_CB + view.summary_df[i].Gold_CB = 0
                  => IsZero(view.Redemption_Rate[i])
    /\ (pc = "shown" /\ view.what = "monthly_comparison") =>
          \A r \in view.monthly_comparison :
              r.Silver_CB + r.Gold_CB = 0 => IsZero(view.Redemption_Rate[r])

\* the rows of a DataFrame in every order
Shuffles(rows) ==
    {[i \in 1..Len(rows) |-> rows[perm[i]]] : perm \in Permutations(1..Len(rows))}

\* C18: customers are simulated independently, and the lifetime records keyed
\* by customer id and the month aggregates are the same for every order of
\* the rows of df, also when two rows carry the same customer_id.
C18_RowOrderDoesNotMatter ==
    pc = "done" =>
        /\ \A k \in 1..Len(df) :
              (\A j \in 1..Len(df) : df[j].customer_id = df[k].customer_id => j = k)
                  => customer_results[df[k].customer_id]
                         = calculate_cashback(<<df[k]>>).customer_results[df[k].customer_id]
        /\ \A shuffled \in Shuffles(df) :
              /\ calculate_cashback(shuffled).customer_results = customer_results
              /\ calculate_cashback_for_month(shuffled, target_month, use_ltv) = results

\* the customer id is carried by one row of df only
OnlyRowOf(customer_id) ==
    Cardinality({k \in 1..Len(df) : df[k].customer_id = customer_id}) = 1

\* the ledger a row's customer ends with in the full-history driver
FinalLedger(r) ==
    LET init == full_locals(r.order_history)
    IN  full_loop(init, init.order_history, 1).wallet_transactions

\* C19: a customer's valid orders are processed in non-decreasing calendar
\* order whenever their dates parse, zero-padded or not: the trace rows of a
\* customer are in non-decreasing order_date, and the ledger is in
\* non-decreasing earned_date.
C19_OrdersInCalendarOrder ==
    pc = "done" =>
        /\ \A i, j \in 1..Len(monthly_results) :
              (/\ i < j
               /\ monthly_results[i].customer_id = monthly_results[j].customer_id
               /\ OnlyRowOf(monthly_results[i].customer_id))
                  => monthly_results[i].order_date <= monthly_results[j].order_date
        /\ \A k \in 1..Len(df) :
              LET w == FinalLedger(df[k])
              IN  \A i, j \in 1..Len(w) : i < j => w[i].earned_date <= w[j].earned_date

\* C20: a ledger entry exists only with a strictly positive balance: the
\* credit appends an entry exactly when the cashback earned on the order is
\* > 0, and after every order step the ledger holds no zero-balance entry.
C20_NoZeroBalanceEntry ==
    Stepped =>
        LET redeemed == step.p.wallet_redeemed
            out == step.p.wallet_out
        IN  /\ CurrentWallet = out
            /\ (Len(out) = Len(redeemed) + 1) <=> (step.p.total_cashback > 0)
            /\ Len(out) > Len(redeemed) => out[Len(out)].balance = step.p.total_cashback
            /\ \A k \in 1..Len(out) : out[k].balance > 0

\* the entries of a ledger earned more than expiry_days before the step's order
ExpiredAtStep(w) == {k \in 1..Len(w) : StepDate - w[k].earned_date > expiry_days}

\* C21: an order step expires, reads the balance, redeems, then credits, the
\* expiry measured against the order's own date: the balance read and
\* coins_used count no entry expired as of the order's date, the redemption is
\* taken from the entries of earlier orders only, and the order's own cashback
\* enters the ledger untouched after the redemption.
C21_ExpireReadRedeemCredit ==
    Stepped =>
        LET p == step.p
            live == p.wallet_live
        IN  /\ ExpiredAtStep(live) = {}
            /\ Len(live) = Len(p.wallet_in) - Cardinality(ExpiredAtStep(p.wallet_in))
            /\ p.wallet_balance = SumBalance(live)
            /\ p.coins_used <= BalanceWithin(p.wallet_in, StepDate, expiry_days)
            /\ p.coins_used > 0 =>
                  /\ Len(p.wallet_redeemed) = Len(live)
                  /\ SumBalance(live) - SumBalance(p.wallet_redeemed) = p.coins_used
            /\ p.total_cashback > 0 =>
                  p.wallet_out = Append(p.wallet_redeemed,
                                        [balance |-> p.total_cashback,
                                         earned_date |-> StepDate])
            /\ p.total_cashback <= 0 => p.wallet_out = p.wallet_redeemed
            /\ CurrentWallet = p.wallet_out

\* an order that finds an expired entry with coins on it, redeems from a live
\* entry and earns cashback of its own
C21_Witness ==
    /\ Stepped
    /\ \E k \in ExpiredAtStep(step.p.wallet_in) : step.p.wallet_in[k].balance > 0
    /\ step.p.coins_used > 0
    /\ step.p.total_cashback > 0
    /\ step.p.coins_used < step.p.wallet_balance + step.p.total_cashback

\* cumulative_ltv of the driver that ran last
CurrentLtv == IF step.driver = "full" THEN f.cumulative_ltv ELSE m.cumulative_ltv

\* C22: each valid order changes cumulative_ltv by exactly amount_paid =
\* order_value - coins_used - promo_amount, negative amounts included, so every
\* lifetime record has final_ltv = total_silver_rev + total_gold_rev
\* - total_coins_used - total_promo.
C22_LtvIsNetPaid ==
    /\ Stepped =>
          /\ step.p.amount_paid
                 = step.order.silver_revenue + step.order.gold_revenue
                       - step.p.coins_used - step.order.promo_amount
          /\ CurrentLtv = step.p.ltv_before + step.p.amount_paid
    /\ \A c \in DOMAIN customer_results :
          customer_results[c].final_ltv
              = customer_results[c].total_silver_rev + customer_results[c].total_gold_rev
                    - customer_results[c].total_coins_used - customer_results[c].total_promo

\* a stored record of a customer one of whose orders redeemed coins and one of
\* whose orders was paid a negative amount, lowering cumulative_ltv
C22_Witness ==
    /\ FullCustomerDone
    /\ row.customer_id \in DOMAIN customer_results
    /\ customer_results[row.customer_id].total_coins_used > 0
    /\ customer_results[row.customer_id].total_promo > 0
    /\ \E k \in 1..Len(hist.full) :
          /\ hist.full[k].amount_paid < 0
          /\ hist.full[k].ltv_before > 0

\* the bracket rows of the summary a customer's final LTV resolves to
RowsOf(cid) ==
    {i \in 1..Len(ltv_brackets) :
        ltv_brackets[i].label
            = get_ltv_bracket(customer_results[cid].final_ltv, ltv_brackets)}

\* C23: the bracket-level summary counts every customer of the lifetime table
\* in exactly one bracket row, the row of the bracket its final LTV resolves
\* to: Users sums to the number of customers, every monetary column summed
\* over the rows is the total over all customers, and Total_Discount =
\* Actual_Promo + CB_Redeemed in every row.
C23_SummaryPartitionsCustomers ==
    view.what = "ltv_summary" =>
        LET summary == view.summary_df
            ids == DOMAIN customer_results
            total(field) == SumOver([cid \in ids |-> customer_results[cid][field]], ids)
        IN  /\ Len(summary) = Len(ltv_brackets)
            /\ \A cid \in ids : Cardinality(RowsOf(cid)) = 1
            /\ \A i \in 1..Len(summary) :
                  /\ summary[i].LTV_Bracket = ltv_brackets[i].label
                  /\ summary[i].Users = Cardinality({cid \in ids : i \in RowsOf(cid)})
                  /\ summary[i].Total_Discount
                         = summary[i].Actual_Promo + summary[i].CB_Redeemed
            /\ SumRows(summary, "Users") = Cardinality(ids)
            /\ SumRows(summary, "Gold_Revenue") = total("total_gold_rev")
            /\ SumRows(summary, "Silver_Revenue") = total("total_silver_rev")
            /\ SumRows(summary, "Repeat_Revenue") = total("repeat_revenue")
            /\ SumRows(summary, "Actual_Promo") = total("total_promo")
            /\ SumRows(summary, "Silver_CB") = total("total_silver_cb")
            /\ SumRows(summary, "Gold_CB") = total("total_gold_cb")
            /\ SumRows(summary, "CB_Redeemed") = total("total_coins_used")
            /\ SumRows(summary, "Coin_Balance") = total("final_wallet_balance")

\* a summary of two customers in different brackets, one of them with a
\* negative final LTV, and a row with promo and redeemed coins
C23_Witness ==
    /\ view.what = "ltv_summary"
    /\ Cardinality(DOMAIN customer_results) = 2
    /\ \E i, j \in 1..Len(view.summary_df) :
          /\ i # j
          /\ view.summary_df[i].Users = 1
          /\ view.summary_df[j].Users = 1
          /\ view.summary_df[j].Actual_Promo > 0
          /\ view.summary_df[j].CB_Redeemed > 0
    /\ \E cid \in DOMAIN customer_results : customer_results[cid].final_ltv < 0

\* the amount a numeric text is written for, in hundredths: 1,000  12.5M  5.
InjectedAmount(text) ==
    CASE text = <<"1", ",", "0", "0", "0">> -> 100000
      [] text = <<"1", "2", ".", "5", "M">> -> 1250
      [] text = <<"5", ".">> -> 500

\* the order id an id text is written for: 'A1' and #A1
InjectedId(text) ==
    CASE text = <<"'", "A", "1", "'">> -> <<"A", "1">>
      [] text = <<"#", "A", "1">> -> <<"#", "A", "1">>

\* a numeric field that is absent, or written as a decimal number with
\* optional thousands separators and unit suffix
WellFormedNumber(field) ==
    field.key => field.text \in {<<"1", ",", "0", "0", "0">>,
                                 <<"1", "2", ".", "5", "M">>,
                                 <<"5", ".">>}

\* a sub-record whose present fields are all written in their expected shape
WellFormed(rec) ==
    /\ rec.order_id.key
    /\ rec.order_id.text \in {<<"'", "A", "1", "'">>, <<"#", "A", "1">>}
    /\ rec.order_date.key =>
          rec.order_date.tag /\ rec.order_date.quoted /\ rec.order_date.body # ""
    /\ WellFormedNumber(rec.silver_revenue)
    /\ WellFormedNumber(rec.gold_revenue)
    /\ WellFormedNumber(rec.promo_amount)

\* the value a numeric field is expected to parse to
ExpectedAmount(field) == IF field.key THEN InjectedAmount(field.text) ELSE 0

\* every sub-record of the text is well-formed
AllWellFormed ==
    \A k \in 1..Len(order_history_str) :
        order_history_str[k].kind = "record" => WellFormed(order_history_str[k])

\* the sub-records of the text, in the order of the text
SubRecordsOfText ==
    SelectSeq(order_history_str, LAMBDA chunk : chunk.kind = "record")

C25_OneSimulationPerCustomer ==
    pc = "done" => n_rows <= Len(df)

RECURSIVE SumHist(_, _)
\* the sum of a field over what a driver computed for the customer's valid orders
SumHist(h, field) == IF h = <<>> THEN 0 ELSE Head(h)[field] + SumHist(Tail(h), field)

\* every rate of the configuration is >= 0
NonNegativeRates ==
    \A l \in DOMAIN cashback_config :
        /\ cashback_config[l].silver_cb >= 0
        /\ cashback_config[l].gold_cb >= 0
        /\ cashback_config[l].redeem_pct >= 0

\* C26: wallet conservation: after every order step of a customer the cashback
\* credited to the ledger so far is the coins redeemed so far plus the balance
\* removed by expiry so far plus the ledger balance; with non-negative rates a
\* lifetime record has total_coins_used <= total_silver_cb + total_gold_cb and
\* final_wallet_balance <= total_silver_cb + total_gold_cb.
C26_WalletConservation ==
    /\ Stepped =>
          SumHist(StepHist, "credited")
              = SumHist(StepHist, "coins_used") + SumHist(StepHist, "expired")
                    + SumBalance(CurrentWallet)
    /\ NonNegativeRates =>
          \A c \in DOMAIN customer_results :
              LET earned == customer_results[c].total_silver_cb
                                + customer_results[c].total_gold_cb
              IN  /\ customer_results[c].total_coins_used <= earned
                  /\ customer_results[c].final_wallet_balance <= earned

RECURSIVE TraceSum(_, _, _)
\* sum of a column over the trace rows of a month
TraceSum(rows, month, column) ==
    IF rows = <<>> THEN 0
    ELSE (IF Head(rows).month = month THEN Head(rows)[column] ELSE 0)
             + TraceSum(Tail(rows), month, column)

\* C27: the two drivers price every valid order identically: Silver_CB,
\* Gold_CB and CB_Redeemed of calculate_cashback_for_month(M, use_ltv=False)
\* are the sums of silver_cb, gold_cb and coins_used over the rows of
\* calculate_cashback's trace whose month is M, and each valid order of a
\* customer is priced with the same bracket in both drivers.
C27_DriversPriceAlike ==
    /\ (SameRowsDone /\ ~use_ltv) =>
          /\ results.total_silver_cb = TraceSum(monthly_results, target_month, "silver_cb")
          /\ results.total_gold_cb = TraceSum(monthly_results, target_month, "gold_cb")
          /\ results.total_coins_used = TraceSum(monthly_results, target_month, "coins_used")
    /\ MonthCustomerDone =>
          /\ Len(hist.month) = Len(hist.full)
          /\ \A k \in 1..Len(hist.month) :
                /\ hist.month[k].order = hist.full[k].order
                /\ hist.month[k].current_bracket = hist.full[k].current_bracket

\* the trace rows carrying a customer id, in trace order
TraceRowsOf(customer_id) ==
    SelectSeq(monthly_results, LAMBDA r : r.customer_id = customer_id)

\* a lifetime record's totals are the column sums of the given trace rows and
\* its final_wallet_balance the wallet_balance of the last of them
RecordMatchesTrace(rec, rows) ==
    /\ rec.total_silver_rev = SumRows(rows, "silver_rev")
    /\ rec.total_gold_rev = SumRows(rows, "gold_rev")
    /\ rec.total_silver_cb = SumRows(rows, "silver_cb")
    /\ rec.total_gold_cb = SumRows(rows, "gold_cb")
    /\ rec.total_coins_used = SumRows(rows, "coins_used")
    /\ rows # <<>> => rec.final_wallet_balance = rows[Len(rows)].wallet_balance

\* C28: for every customer id of the full-history output the lifetime record's
\* totals are the sums of the corresponding columns over all trace rows
\* carrying that id, and final_wallet_balance is the wallet_balance of the
\* customer's last trace row, also when several rows of the dataset carry the
\* same customer_id.
C28_RecordIsTraceSum ==
    pc = "done" =>
        \A c \in DOMAIN customer_results :
            RecordMatchesTrace(customer_results[c], TraceRowsOf(c))

\* the monetary fields of a bucket of calculate_cashback_for_month
MoneyFields ==
    {"total_silver_rev", "total_gold_rev", "total_promo", "total_silver_cb",
     "total_gold_cb", "total_coins_used", "total_coin_balance"}

\* a field summed over the bracket buckets
OverBuckets(res, field) == SumOver([l \in DOMAIN res |-> res[l][field]], DOMAIN res)

RECURSIVE month_priced(_, _, _, _, _)
\* what the month-scoped driver's loop computes for a customer's target-month
\* orders, one row per order, from position k on
month_priced(customer_id, s, order_list, k, month) ==
    IF k > Len(order_list) THEN <<>>
    ELSE IF ~IsValid(order_list[k])
         THEN month_priced(customer_id, s, order_list, k + 1, month)
    ELSE LET p == PriceOrder(s.wallet_transactions, s.cumulative_ltv, order_list[k],
                             strptime(order_list[k].order_date), s.order_num + 1)
             rest == month_priced(customer_id, month_body(s, order_list[k], month),
                                  order_list, k + 1, month)
         IN  IF strftime(order_list[k].order_date) = month
             THEN <<trace_row(customer_id, order_list[k], p)>> \o rest
             ELSE rest

RECURSIVE MonthPriced(_, _)
\* the same over the rows of a DataFrame
MonthPriced(rows, month) ==
    IF rows = <<>> THEN <<>>
    ELSE LET init == month_locals(Head(rows).order_history)
         IN  month_priced(Head(rows).customer_id, init, init.order_history, 1, month)
                 \o MonthPriced(Tail(rows), month)

\* the target-month orders of df the month-scoped driver priced with a bracket
PricedWith(label) ==
    SelectSeq(MonthPriced(df, target_month), LAMBDA r : r.ltv_bracket = label)

\* C29: the bracket breakdown is a partition of the month total: every
\* monetary field summed over the bracket buckets of
\* calculate_cashback_for_month(M, use_ltv=True) is the same field of
\* calculate_cashback_for_month(M, use_ltv=False), and a target-month order is
\* counted in the bucket of the bracket that priced it and in no other.
C29_BracketsPartitionMonth ==
    (pc = "done" /\ use_ltv) =>
        LET single == calculate_cashback_for_month(df, target_month, FALSE)
        IN  /\ \A field \in MoneyFields : OverBuckets(results, field) = single[field]
            /\ DOMAIN results = Labels(ltv_brackets)
            /\ \A l \in DOMAIN results :
                  /\ results[l].unique_customers
                         = {PricedWith(l)[k].customer_id : k \in 1..Len(PricedWith(l))}
                  /\ results[l].total_silver_rev = SumRows(PricedWith(l), "silver_rev")
                  /\ results[l].total_gold_rev = SumRows(PricedWith(l), "gold_rev")
                  /\ results[l].total_silver_cb = SumRows(PricedWith(l), "silver_cb")
                  /\ results[l].total_gold_cb = SumRows(PricedWith(l), "gold_cb")
                  /\ results[l].total_coins_used = SumRows(PricedWith(l), "coins_used")

\* a month whose orders were priced in two brackets, with redeemed coins and a
\* coin balance in the breakdown
C29_Witness ==
    /\ pc = "done"
    /\ use_ltv
    /\ \E l1, l2 \in DOMAIN results :
          /\ l1 # l2
          /\ results[l1].total_silver_rev + results[l1].total_gold_rev > 0
          /\ results[l2].total_silver_rev + results[l2].total_gold_rev > 0
          /\ results[l2].total_coins_used > 0
    /\ OverBuckets(results, "total_coin_balance") > 0
    /\ OverBuckets(results, "total_promo") > 0

====
